---- MODULE Spec2Model ----
(***************************************************************************)
(* borg-space: repository specifications, the catalog of named groups,     *)
(* resolution of requests into repositories, the fetch of their latest     *)
(* metrics, the recording of sizes and the tree report                     *)
(* (src/borg_space/config.py, main.py and trees.py).                       *)
(*                                                                         *)
(* A string is a sequence of one-character strings.                        *)
(***************************************************************************)
EXTENDS Integers, Sequences, FiniteSets, TLC

VARIABLES
    text,            \* parser run: the spec string given to Repository()
    parsed,          \* parser run: <<>> before the call, <<result>> after it
    serial,          \* parser run: <<>> before str(), <<string>> after it
    pc,              \* where the program is
    exc,             \* the exception that ended the program, "none" if none
    specifications,  \* settings['repositories']: sequence of [name, specs]
    li,              \* index of the group the settings loop is at
    repositories,    \* group name -> sequence of Repository object ids
    objs,            \* the Repository objects, by id
    default_repository,  \* settings.get('default_repository'), <<>> if unset
    requests,        \* cmdline['<spec>']
    record_size,     \* cmdline['--record']
    ri,              \* collect_repos: index of the request being resolved
    children,        \* get_repos: the objects of the request, as ids
    ci,              \* get_repos: index of the child being fetched
    results,         \* get_repos: the dictionary it returns
    repos,           \* collect_repos: the merged dictionary
    rk,              \* collect_repos: index of the item being recorded
    source,          \* the metrics documents seen so far, by path
    queries,         \* the reads of the metrics source, in order
    reported,        \* the errors and warnings reported
    history,         \* the history files seen so far, by name
    loads,           \* the reads of history files, in order
    printed,         \* whether a report was printed
    hierarchy,       \* renderer run: the data given to tree()
    rendered         \* renderer run: <<>> before the call, <<text>> after it

parseVars == <<text, parsed, serial>>
settingsVars == <<specifications, default_repository, li, repositories>>
cmdVars == <<requests, record_size>>
runVars == <<ri, children, ci, results, repos, rk>>
envVars == <<source, queries, reported, history, loads, printed>>
treeVars == <<hierarchy, rendered>>
vars == <<text, parsed, serial, pc, exc, specifications, default_repository,
          li, repositories, objs, requests, record_size, ri, children, ci,
          results, repos, rk, source, queries, reported, history, loads,
          printed, hierarchy, rendered>>

(***************************************************************************)
(* Bounds                                                                  *)
(***************************************************************************)
MaxLen == 5
\* catalog run: number of groups and total number of specs in the settings
MaxGroups == 3
MaxEntries == 4

(***************************************************************************)
(* Characters and strings                                                  *)
(***************************************************************************)
\* characters str.isidentifier() accepts in first place
IdStart == {"a", "b", "c", "d", "e", "h", "r", "u", "x", "y", "_"}
\* characters str.isidentifier() accepts after the first place only
IdDigit == {"0", "1"}
\* the characters the parser run draws its input from
Alphabet == {"a", "1", "-", "@", "~", "!"}

Strings(n) == UNION {[1..k -> Alphabet] : k \in 0..n}

\* socket.gethostname().split('.')[0] and pwd.getpwuid(os.getuid()).pw_name
hostname == <<"h">>
username == <<"u">>

\* index of the first occurrence of sep in s, 0 when there is none
find(s, sep) ==
    IF \E i \in 1..Len(s) : s[i] = sep
    THEN CHOOSE i \in 1..Len(s) : s[i] = sep /\ \A j \in 1..(i-1) : s[j] # sep
    ELSE 0

\* str.partition(sep): <<before, after>>, the separator dropped
partition(s, sep) ==
    LET i == find(s, sep)
    IN  IF i = 0 THEN <<s, <<>>>>
        ELSE <<SubSeq(s, 1, i-1), SubSeq(s, i+1, Len(s))>>

\* the dash replaced by a character an identifier may begin with
replace_dash_by_underscore(s) ==
    [i \in 1..Len(s) |-> IF s[i] = "-" THEN "_" ELSE s[i]]

\* str.replace('-', '0')
replace_dash(s) == [i \in 1..Len(s) |-> IF s[i] = "-" THEN "0" ELSE s[i]]

\* str.isidentifier()
isidentifier(s) ==
    /\ Len(s) > 0
    /\ s[1] \in IdStart
    /\ \A i \in 1..Len(s) : s[i] \in IdStart \cup IdDigit

\* a_name(arg) returns arg unless it raises Invalid; TRUE when it returns
a_name_ok(arg) == arg = <<>> \/ isidentifier(replace_dash(arg))

(***************************************************************************)
(* Repository                                                              *)
(***************************************************************************)
\* x or default
OrDefault(x, default) == IF x = <<>> THEN default ELSE x

NoRepo == [spec |-> <<>>, name |-> <<>>, config |-> <<>>, host |-> <<>>,
           user |-> <<>>, latest |-> <<>>]

\* Repository.__init__(spec, name): exc is "none" when the object is built,
\* "Error" for a missing config name, "Invalid" when a_name rejects a segment.
\* latest = <<>> stands for None, <<d>> for the dictionary d.
Repository(spec, name) ==
    LET p1     == partition(spec, "~")
        prefix == p1[1]
        user   == p1[2]
        p2     == partition(prefix, "@")
        config == p2[1]
        host   == p2[2]
    IN  IF config = <<>>
        THEN [exc |-> "Error", obj |-> NoRepo]
        ELSE IF ~(a_name_ok(config) /\ a_name_ok(host) /\ a_name_ok(user))
        THEN [exc |-> "Invalid", obj |-> NoRepo]
        ELSE [exc |-> "none",
              obj |-> [spec   |-> spec,
                       name   |-> OrDefault(name, spec),
                       config |-> config,
                       host   |-> OrDefault(host, hostname),
                       user   |-> OrDefault(user, username),
                       latest |-> <<>>]]

\* the serialisation without the user
Str_without_user(repo) == repo.config \o <<"@">> \o repo.host

\* Repository.__str__
Str(repo) == repo.config \o <<"@">> \o repo.host \o <<"~">> \o repo.user

(***************************************************************************)
(* The parser run: Repository(text), then str() of the object              *)
(***************************************************************************)
NoRepositories == [n \in {} |-> <<>>]

\* nothing has been asked for and nothing was done yet
InitRunVars ==
    /\ requests = <<>>
    /\ record_size = FALSE
    /\ ri = 1
    /\ children = <<>>
    /\ ci = 1
    /\ results = <<>>
    /\ repos = <<>>
    /\ rk = 1
    /\ source = <<>>
    /\ queries = <<>>
    /\ reported = {}
    /\ history = <<>>
    /\ loads = <<>>
    /\ printed = FALSE
    /\ hierarchy = <<>>
    /\ rendered = <<>>

InitParse ==
    /\ text \in Strings(MaxLen)
    /\ parsed = <<>>
    /\ serial = <<>>
    /\ pc = "parse"
    /\ exc = "none"
    /\ specifications = <<>>
    /\ default_repository = <<>>
    /\ li = 1
    /\ repositories = NoRepositories
    /\ objs = <<>>
    /\ InitRunVars

Parse ==
    /\ pc = "parse"
    /\ parsed = <<>>
    /\ parsed' = <<Repository(text, <<>>)>>
    /\ UNCHANGED <<treeVars, text, serial, pc, exc, settingsVars, objs, cmdVars, runVars,
                   envVars>>

Serialise ==
    /\ pc = "parse"
    /\ parsed # <<>>
    /\ parsed[1].exc = "none"
    /\ serial = <<>>
    /\ serial' = <<Str(parsed[1].obj)>>
    /\ UNCHANGED <<treeVars, text, parsed, pc, exc, settingsVars, objs, cmdVars, runVars,
                   envVars>>

NextParse == Parse \/ Serialise

SpecParse == InitParse /\ [][NextParse]_vars

(***************************************************************************)
(* Reading the settings: specifications -> repositories                    *)
(***************************************************************************)
\* the names of the groups of the settings file, in the order declared
NameChars == <<"a", "b", "c", "d", "e">>
GroupName(i) == <<NameChars[i]>>

\* specs a group may list besides group names: a bare config, the same
\* repository with the local host spelled out, and a string a_name rejects
ExtraSpecs == {<<"x">>, <<"x", "@", "h">>, <<"!">>}
SpecPool(groups) == {GroupName(i) : i \in 1..groups} \cup ExtraSpecs

RECURSIVE SumTo(_, _)
\* lens[1] + ... + lens[k]
SumTo(lens, k) == IF k = 0 THEN 0 ELSE lens[k] + SumTo(lens, k - 1)

\* the settings file whose groups list, in order, lens[1], lens[2], ... of
\* the specs of the sequence flat
MkCatalog(flat, lens) ==
    [i \in 1..Len(lens) |->
        [name  |-> GroupName(i),
         specs |-> SubSeq(flat, SumTo(lens, i - 1) + 1, SumTo(lens, i))]]

\* the test without `spec != name`
IsKnown_without_self_test(spec, name) == spec \in (DOMAIN repositories \cup {name})

\* config.py 250, 253: `spec in repositories and spec != name`, evaluated
\* after line 250 has put `name` itself among the keys
IsKnown(spec, name) == spec \in (DOMAIN repositories \cup {name}) /\ spec # name

\* the items of `more` put before those of `acc`
Extend_in_front(acc, more) == more \o acc

Extend(acc, more) == acc \o more

\* repositories[spec] while the list of `name` is still being built as `acc`
Known(spec, name, acc) == IF spec = name THEN acc ELSE repositories[spec]

RECURSIVE LoadSpecs(_, _, _, _, _)
\* config.py 252-257: the inner loop over the specs of group `name`, from
\* the list `acc` built so far and the objects `os` allocated so far
LoadSpecs(name, alias, specs, acc, os) ==
    IF specs = <<>> THEN [exc |-> "none", list |-> acc, objs |-> os]
    ELSE LET spec == Head(specs)
         IN  IF IsKnown(spec, name)
             THEN LoadSpecs(name, alias, Tail(specs),
                            Extend(acc, Known(spec, name, acc)), os)
             ELSE LET r == Repository(spec, alias)
                  IN  IF r.exc # "none"
                      THEN [exc |-> r.exc, list |-> acc, objs |-> os]
                      ELSE LoadSpecs(name, alias, Tail(specs),
                                     Append(acc, Len(os) + 1),
                                     Append(os, r.obj))

\* config.py 249-259: one iteration of the loop over specifications.items()
LoadOne(name, specs) ==
    IF specs # <<>>
    THEN LoadSpecs(name, IF Len(specs) <= 1 THEN name ELSE <<>>, specs,
                   <<>>, objs)
    ELSE LET r == Repository(name, <<>>)
         IN  IF r.exc # "none"
             THEN [exc |-> r.exc, list |-> <<>>, objs |-> objs]
             ELSE [exc |-> "none", list |-> <<Len(objs) + 1>>,
                   objs |-> Append(objs, r.obj)]

\* the settings hold at most `groups` groups and `entries` specs in all,
\* and a default repository among `defaults`
InitLoadWith(groups, entries, defaults) ==
    /\ default_repository \in defaults
    /\ InitRunVars
    /\ text = <<>>
    /\ parsed = <<>>
    /\ serial = <<>>
    /\ \E k \in 0..groups, t \in 0..entries :
          \E flat \in [1..t -> SpecPool(groups)],
             lens \in {l \in [1..k -> 0..t] : SumTo(l, k) = t} :
                specifications = MkCatalog(flat, lens)
    /\ li = 1
    /\ repositories = NoRepositories
    /\ objs = <<>>
    /\ exc = "none"
    /\ pc = IF specifications = <<>> THEN "loaded" ELSE "load"

InitLoad == InitLoadWith(MaxGroups, MaxEntries, {<<>>})

\* an uncaught exception ends the import: neither Error nor Invalid is among
\* the exceptions lines 261-281 catch
LoadGroup ==
    /\ pc = "load"
    /\ li <= Len(specifications)
    /\ LET g == specifications[li]
           r == LoadOne(g.name, g.specs)
       IN  IF r.exc # "none"
           THEN /\ pc' = "crashed"
                /\ exc' = r.exc
                /\ UNCHANGED <<li, repositories, objs, reported>>
           ELSE /\ repositories' = (g.name :> r.list) @@ repositories
                /\ objs' = r.objs
                /\ li' = li + 1
                /\ pc' = IF li = Len(specifications) THEN "loaded" ELSE "load"
                /\ UNCHANGED <<exc, reported>>
    /\ UNCHANGED <<parseVars, treeVars, specifications, default_repository,
                   cmdVars, runVars, source, queries, history, loads, printed>>

NextLoad == LoadGroup

SpecLoad == InitLoad /\ [][NextLoad]_vars

(***************************************************************************)
(* Dictionaries, as sequences of [key, val] in insertion order             *)
(***************************************************************************)
DictKeys(d) == {d[i].key : i \in DOMAIN d}

\* a list of items where the code has a dictionary
DictSet_as_list(d, k, v) == Append(d, [key |-> k, val |-> v])

\* a dictionary that keeps the value a key was first given
DictSet_keep_first(d, k, v) ==
    IF k \in DictKeys(d) THEN d ELSE Append(d, [key |-> k, val |-> v])

\* d[k] = v
DictSet(d, k, v) ==
    IF k \in DictKeys(d)
    THEN [i \in DOMAIN d |-> IF d[i].key = k THEN [key |-> k, val |-> v] ELSE d[i]]
    ELSE Append(d, [key |-> k, val |-> v])

RECURSIVE DictUpdate(_, _)
\* d.update(other)
DictUpdate(d, other) ==
    IF other = <<>> THEN d
    ELSE DictUpdate(DictSet(d, Head(other).key, Head(other).val), Tail(other))

(***************************************************************************)
(* The metrics source and Repository.get_latest                            *)
(***************************************************************************)
EmptyDoc == [k \in {} |-> 0]

\* the metrics documents of a run: none of the recognised keys, or a size
RunDocs == {EmptyDoc, [k \in {"repository size"} |-> 1]}

\* what reading the metrics of a repository on `host` can come to: the file
\* is missing (local), ssh fails (remote), the file may not be read (local),
\* it is no NestedText dictionary, a value of it is no number or no date, or
\* it is a document
FailKinds(host) ==
    IF host = hostname THEN {"missing", "denied", "unreadable", "badvalue"}
    ELSE {"unreachable", "unreadable", "badvalue"}
Outcomes(host) ==
    {[kind |-> k, raw |-> EmptyDoc] : k \in FailKinds(host)}
        \cup {[kind |-> "doc", raw |-> d] : d \in RunDocs}
NoOutcome == [kind |-> "cached", raw |-> EmptyDoc]

\* Repository.get_path: the host and the file, which user and config name
get_path(repo) == <<repo.host, repo.user, repo.config>>

\* the first of the two, whichever is later
Max_is_first(a, b) == a

Max(a, b) == IF a >= b THEN a ELSE b

\* config.py 113-123: the record built from the document raw_data
Data(raw) ==
    LET field == [k \in {"repository size", "create last run",
                         "prune last run", "compact last run"} |->
                     CASE k = "repository size"  -> "size"
                       [] k = "create last run"  -> "last_create"
                       [] k = "prune last run"   -> "last_prune"
                       [] k = "compact last run" -> "last_compact"]
        given == DOMAIN raw \cap DOMAIN field
        data  == [f \in {field[k] : k \in given} |->
                     raw[CHOOSE k \in given : field[k] = f]]
    IN  IF {"last_prune", "last_compact"} \subseteq DOMAIN data
        THEN [f \in DOMAIN data \cup {"last_squeeze"} |->
                 IF f = "last_squeeze"
                 THEN Max(data["last_prune"], data["last_compact"])
                 ELSE data[f]]
        ELSE data

\* `if self.latest`: neither None nor an empty dictionary
Truthy(latest) == latest # <<>> /\ DOMAIN latest[1] # {}

\* a fetch that raises nothing when the source cannot be read
get_latest_never_raises(repo, out) ==
    IF Truthy(repo.latest) THEN [raise |-> "none", latest |-> repo.latest]
    ELSE IF out.kind # "doc" THEN [raise |-> "none", latest |-> repo.latest]
    ELSE [raise |-> "none", latest |-> <<Data(out.raw)>>]

\* Repository.get_latest with `out` what the metrics source gives when read:
\* the exception raised ("none" if none) and self.latest afterwards
get_latest(repo, out) ==
    IF Truthy(repo.latest) THEN [raise |-> "none", latest |-> repo.latest]
    ELSE CASE out.kind \in {"missing", "unreachable", "unreadable"} ->
                [raise |-> "Error", latest |-> repo.latest]
           [] out.kind = "denied" ->
                [raise |-> "OSError", latest |-> repo.latest]
           [] out.kind = "badvalue" ->
                [raise |-> "ValueError", latest |-> <<EmptyDoc>>]
           [] OTHER ->
                [raise |-> "none", latest |-> <<Data(out.raw)>>]

\* what the source gives `repo`: nothing when get_latest does not read it,
\* what it gave before for the same path, else any outcome
Reads(repo) ==
    IF Truthy(repo.latest) THEN {NoOutcome}
    ELSE IF get_path(repo) \in DOMAIN source THEN {source[get_path(repo)]}
    ELSE Outcomes(repo.host)

\* the source and the log of its reads after get_latest on object id
Asked(id, out) ==
    /\ source' = IF out = NoOutcome THEN source
                 ELSE (get_path(objs[id]) :> out) @@ source
    /\ queries' = IF out = NoOutcome THEN queries
                  ELSE Append(queries, [id |-> id, path |-> get_path(objs[id])])

(***************************************************************************)
(* The run: main, collect_repos, get_repos                                 *)
(***************************************************************************)
\* the requests of a run
RunGroups == 2
RunEntries == 2
MaxRequests == 2
DefaultPool == {<<>>, <<"a">>}
RequestPool == {<<>>, <<"a">>, <<"b">>, <<"x", "@", "h", "~", "u">>,
                <<"y", "@", "r">>, <<"@", "h">>, <<"!">>}

InitRun == InitLoadWith(RunGroups, RunEntries, DefaultPool)

\* main.py 338-341 and an uncaught exception: main reports an Error and an
\* OSError and ends; any other exception ends the program with a traceback.
\* The dictionaries of collect_repos and get_repos are gone with their frames.
Propagate(kind, culprit) ==
    /\ pc' = IF kind \in {"Error", "OSError"} THEN "done" ELSE "crashed"
    /\ exc' = kind
    /\ reported' = IF kind \in {"Error", "OSError"}
                   THEN reported \cup {[culprit |-> culprit, kind |-> kind]}
                   ELSE reported
    /\ children' = <<>>
    /\ results' = <<>>
    /\ repos' = <<>>

\* main.py 325-332
Main ==
    /\ pc = "loaded"
    /\ \E reqs \in UNION {[1..n -> RequestPool] : n \in 0..MaxRequests},
          rec \in BOOLEAN :
            /\ requests' = IF reqs = <<>> THEN << <<>> >> ELSE reqs
            /\ record_size' = rec
    /\ pc' = "collect"
    /\ UNCHANGED <<parseVars, treeVars, exc, settingsVars,
                   objs, runVars, envVars>>

\* the request taken for the default repository even when it is empty
SpecOrDefault_unsubstituted(spec) == spec

\* config.py 128-129
SpecOrDefault(spec) == IF spec = <<>> THEN default_repository ELSE spec

\* main.py 67-68, config.py 127-140: get_repos(request) up to its loop
GetRepos ==
    /\ pc = "collect"
    /\ ri <= Len(requests)
    /\ LET spec == SpecOrDefault(requests[ri])
       IN  IF spec = <<>>
           THEN /\ Propagate("Error", <<>>)
                /\ UNCHANGED <<objs, ci>>
           ELSE IF spec \in DOMAIN repositories
           THEN /\ children' = repositories[spec]
                /\ results' = <<>>
                /\ ci' = 1
                /\ pc' = "fetch"
                /\ UNCHANGED <<objs, exc, reported, repos>>
           ELSE LET r == Repository(spec, <<>>)
                IN  IF r.exc # "none"
                    THEN /\ Propagate(r.exc, spec)
                         /\ UNCHANGED <<objs, ci>>
                    ELSE /\ objs' = Append(objs, r.obj)
                         /\ children' = <<Len(objs) + 1>>
                         /\ results' = <<>>
                         /\ ci' = 1
                         /\ pc' = "fetch"
                         /\ UNCHANGED <<exc, reported, repos>>
    /\ UNCHANGED <<parseVars, treeVars, settingsVars, cmdVars, ri, rk, source,
                   queries, history, loads, printed>>

\* only `except Error`
Caught_only_Error(raise) == raise = "Error"

\* config.py 147-150: `except Error` and `except OSError`
Caught(raise) == raise \in {"Error", "OSError"}

\* config.py 141-150: one iteration of the loop over children
FetchChild ==
    /\ pc = "fetch"
    /\ ci <= Len(children)
    /\ LET id   == children[ci]
           name == Str(objs[id])
       IN  \E out \in Reads(objs[id]) :
             LET r == get_latest(objs[id], out)
             IN  /\ Asked(id, out)
                 /\ objs' = [objs EXCEPT ![id].latest = r.latest]
                 /\ IF r.raise = "none"
                    THEN /\ results' = DictSet(results, name, id)
                         /\ ci' = ci + 1
                         /\ UNCHANGED <<pc, exc, reported, children, repos>>
                    ELSE IF Caught(r.raise)
                    THEN /\ reported' = reported \cup
                                {[culprit |-> name, kind |-> r.raise]}
                         /\ ci' = ci + 1
                         /\ UNCHANGED <<pc, exc, results, children, repos>>
                    ELSE /\ Propagate(r.raise, <<>>)
                         /\ UNCHANGED ci
    /\ UNCHANGED <<parseVars, treeVars, settingsVars, cmdVars, ri, rk, history,
                   loads, printed>>

\* config.py 151, main.py 69: get_repos returns, repos.update(new_repos)
GetReposReturn ==
    /\ pc = "fetch"
    /\ ci > Len(children)
    /\ repos' = DictUpdate(repos, results)
    /\ results' = <<>>
    /\ children' = <<>>
    /\ ci' = 1
    /\ ri' = ri + 1
    /\ pc' = "collect"
    /\ UNCHANGED <<parseVars, treeVars, exc, settingsVars,
                   objs, cmdVars, rk, envVars>>

\* recording begins while requests remain
CollectDone_before_the_last_request ==
    /\ pc = "collect"
    /\ ri >= Len(requests)
    /\ pc' = IF record_size THEN "record" ELSE "report"
    /\ UNCHANGED <<parseVars, treeVars, exc, settingsVars, objs, cmdVars, runVars,
                   envVars>>

\* main.py 67, 72: the loop over requests has ended
CollectDone ==
    /\ pc = "collect"
    /\ ri > Len(requests)
    /\ pc' = IF record_size THEN "record" ELSE "report"
    /\ UNCHANGED <<parseVars, treeVars, exc, settingsVars,
                   objs, cmdVars, runVars, envVars>>

\* the timestamp of this run and the one of an earlier run
now == 2
earlier == 1

\* a history file: none, or one with the size recorded by an earlier run
NoFile == [exists |-> FALSE, data |-> [t \in {} |-> 0]]
HistoryFiles == {NoFile, [exists |-> TRUE, data |-> [t \in {earlier} |-> 1]]}

\* the dictionary written holds this run's entry only
Appended_alone(data, size) == (now :> size)

\* main.py 86: data[now] = latest['size'].fixed()
Appended(data, size) == (now :> size) @@ data

\* main.py 73-91: one iteration of the loop that records the sizes
RecordOne ==
    /\ pc = "record"
    /\ rk <= Len(repos)
    /\ LET name == repos[rk].key
           id   == repos[rk].val
       IN  \E file \in (IF name \in DOMAIN history THEN {history[name]}
                        ELSE HistoryFiles),
              out \in Reads(objs[id]) :
             LET r == get_latest(objs[id], out)
             IN  /\ loads' = Append(loads, [name |-> name, data |-> file.data])
                 /\ Asked(id, out)
                 /\ objs' = [objs EXCEPT ![id].latest = r.latest]
                 /\ IF r.raise # "none"
                    THEN /\ Propagate(r.raise, <<>>)
                         /\ history' = (name :> file) @@ history
                         /\ UNCHANGED rk
                    ELSE /\ IF "size" \in DOMAIN r.latest[1]
                            THEN /\ history' =
                                      (name :> [exists |-> TRUE,
                                                data |-> Appended(file.data,
                                                           r.latest[1]["size"])])
                                        @@ history
                                 /\ reported' = reported
                            ELSE /\ history' = (name :> file) @@ history
                                 /\ reported' = reported \cup
                                        {[culprit |-> name, kind |-> "warning"]}
                         /\ rk' = rk + 1
                         /\ UNCHANGED <<pc, exc, children, results, repos>>
    /\ UNCHANGED <<parseVars, treeVars, settingsVars, cmdVars, ri, ci, printed>>

\* main.py 73, 93: the loop over repos has ended, collect_repos returns
RecordDone ==
    /\ pc = "record"
    /\ rk > Len(repos)
    /\ pc' = "report"
    /\ UNCHANGED <<parseVars, treeVars, exc, settingsVars,
                   objs, cmdVars, runVars, envVars>>

\* main.py 333-337
Report ==
    /\ pc = "report"
    /\ printed' = (repos # <<>>)
    /\ pc' = "done"
    /\ UNCHANGED <<parseVars, treeVars, exc, settingsVars, objs, cmdVars, runVars,
                   source, queries, reported, history, loads>>

Next ==
    \/ LoadGroup
    \/ Main
    \/ GetRepos
    \/ FetchChild
    \/ GetReposReturn
    \/ CollectDone
    \/ RecordOne
    \/ RecordDone
    \/ Report

Spec == InitRun /\ [][Next]_vars

\* main.py 342-343: a KeyboardInterrupt raised anywhere inside the try of main
\* ends the program; nothing is undone and nothing is reported
Interrupt ==
    /\ pc \in {"collect", "fetch", "record", "report"}
    /\ pc' = "done"
    /\ exc' = "KeyboardInterrupt"
    /\ children' = <<>>
    /\ results' = <<>>
    /\ repos' = <<>>
    /\ UNCHANGED <<parseVars, treeVars, settingsVars, objs, cmdVars, ri, ci, rk,
                   envVars>>

NextInterrupt == Next \/ Interrupt

SpecInterrupt == InitRun /\ [][NextInterrupt]_vars

(***************************************************************************)
(* One fetch of one repository, for every metrics document                 *)
(***************************************************************************)
\* fetch run: the times of a metrics document are 1..MaxStamp
MaxStamp == 2

MetricKeys == {"repository size", "create last run", "prune last run",
               "compact last run"}

\* nt.loads(content): a dictionary with any of the recognised keys
AllDocs == UNION {[ks -> 1..MaxStamp] : ks \in SUBSET MetricKeys}

InitFetch ==
    /\ text = <<>>
    /\ parsed = <<>>
    /\ serial = <<>>
    /\ pc = "get_latest"
    /\ exc = "none"
    /\ specifications = <<>>
    /\ default_repository = <<>>
    /\ li = 1
    /\ repositories = NoRepositories
    /\ \E spec \in {<<"a">>, <<"a", "@", "r">>} :
         objs = <<Repository(spec, <<>>).obj>>
    /\ InitRunVars

\* config.py 99-124: child.get_latest() on a repository not yet fetched
Fetch ==
    /\ pc = "get_latest"
    /\ \E out \in {[kind |-> k, raw |-> EmptyDoc] : k \in FailKinds(objs[1].host)}
                   \cup {[kind |-> "doc", raw |-> d] : d \in AllDocs} :
         LET r == get_latest(objs[1], out)
         IN  /\ Asked(1, out)
             /\ objs' = [objs EXCEPT ![1].latest = r.latest]
             /\ exc' = r.raise
    /\ pc' = "done"
    /\ UNCHANGED <<parseVars, treeVars, settingsVars, cmdVars, runVars, reported,
                   history, loads, printed>>

NextFetch == Fetch

SpecFetch == InitFetch /\ [][NextFetch]_vars

(***************************************************************************)
(* The tree renderer (src/borg_space/trees.py)                             *)
(*                                                                         *)
(* Here a string is a TLA+ string.  The characters of the connectors are   *)
(* written in ASCII: "+" is the tee, "L" the corner, "|" the vertical      *)
(* rule, "-" the horizontal rule and " " the non-breaking space.           *)
(* A value is a record: [kind |-> "str", str |-> s] a scalar,              *)
(* [kind |-> "list", items |-> <<s, ..>>] a list of strings and            *)
(* [kind |-> "dict", items |-> <<[key, val], ..>>] a dictionary.           *)
(***************************************************************************)
\* renderer run: keys of a dictionary and levels of dictionaries below the top
MaxKeys == 2
TreeDepth == 2

RECURSIVE Times(_, _)
\* n * s
Times(n, s) == IF n <= 0 THEN "" ELSE s \o Times(n - 1, s)

RECURSIVE Join(_, _)
\* sep.join(strs)
Join(sep, strs) ==
    IF strs = <<>> THEN ""
    ELSE IF Len(strs) = 1 THEN strs[1]
    ELSE strs[1] \o sep \o Join(sep, Tail(strs))

\* inform.conjoin(strs, conj, sep): the last two items are joined by conj
conjoin(strs, sep, conj) ==
    IF Len(strs) > 1
    THEN Join(sep, Append(SubSeq(strs, 1, Len(strs) - 2),
                          strs[Len(strs) - 1] \o conj \o strs[Len(strs)]))
    ELSE Join(sep, strs)

\* trees.py 27-42
gen_connectors(width) ==
    LET space == " "
        line  == "-"
        pad   == IF width > 1 THEN space ELSE ""
        extend(seed) ==
            seed \o Times(width - 2, IF seed \in {space, "|"} THEN space ELSE line)
                 \o pad
    IN  [item      |-> extend("+"),
         last_item |-> extend("L"),
         lead      |-> extend("|"),
         last_lead |-> extend(space)]

\* a connector of one character
connectors_of_width_1 == gen_connectors(1)

\* trees.py 44
connectors == gen_connectors(4)

is_collection(value) == value.kind \in {"dict", "list"}

\* every key but the top ones is given the tee
supplements_never_last(top, i, last) ==
    IF top THEN [kls |-> "", ils |-> ""]
    ELSE [kls |-> connectors.item, ils |-> connectors.lead]

\* trees.py 56-64: the key-leader and item-leader supplements of item i
supplements(top, i, last) ==
    IF top THEN [kls |-> "", ils |-> ""]
    ELSE IF i < last THEN [kls |-> connectors.item, ils |-> connectors.lead]
    ELSE [kls |-> connectors.last_item, ils |-> connectors.last_lead]

RECURSIVE _tree(_, _, _, _)
\* trees.py 49-94; the lines that are None or empty are left out of the join
_tree(data, key_suffix, top, leader) ==
    IF data.kind = "dict"
    THEN LET last == Len(data.items) - 1
             lines(n) ==
                 LET key   == data.items[n].key
                     value == data.items[n].val
                     sup   == supplements(top, n - 1, last)
                 IN  IF is_collection(value)
                     THEN << leader \o sup.kls \o key \o key_suffix,
                             IF value.items # <<>>
                             THEN _tree(value, key_suffix, FALSE, leader \o sup.ils)
                             ELSE "" >>
                     ELSE << leader \o sup.kls \o key \o ": " \o value.str >>
             all[n \in 0..Len(data.items)] ==
                 IF n = 0 THEN <<>> ELSE all[n - 1] \o lines(n)
         IN  Join("\n", SelectSeq(all[Len(data.items)], LAMBDA l : l # ""))
    ELSE LET strs == IF data.kind = "list" THEN data.items ELSE <<data.str>>
             items ==
                 IF top THEN conjoin(strs, "\n", "\n")
                 ELSE LET joiner     == "\n" \o leader \o connectors.item
                          terminator == "\n" \o leader \o connectors.last_item
                          connector  == IF Len(strs) > 1 THEN connectors.item
                                        ELSE connectors.last_item
                      IN  leader \o connector \o conjoin(strs, joiner, terminator)
         IN  Join("\n", IF items # "" THEN <<items>> ELSE <<>>)

\* trees.py 46-47
tree(data, key_suffix) == _tree(data, key_suffix, TRUE, "")

\* the key of item i of a dictionary at `level`: hosts, users, configs, fields
Key(level, i) ==
    (CASE level = 1 -> "h" [] level = 2 -> "u" [] level = 3 -> "c" [] OTHER -> "f")
        \o ToString(i)

\* the leaves: a formatted size, or a list of two strings
Leaves == {[kind |-> "str", str |-> "10 B"],
           [kind |-> "list", items |-> <<"x", "y">>]}

RECURSIVE Dicts(_)
\* the dictionaries at `level`, the leaves and dictionaries below them
Dicts(level) ==
    LET below == IF level > TreeDepth THEN Leaves
                 ELSE Leaves \cup Dicts(level + 1)
    IN  UNION {{[kind |-> "dict",
                 items |-> [i \in 1..n |-> [key |-> Key(level, i), val |-> f[i]]]] :
                   f \in [1..n -> below]} : n \in 0..MaxKeys}

InitTree ==
    /\ text = <<>>
    /\ parsed = <<>>
    /\ serial = <<>>
    /\ pc = "render"
    /\ exc = "none"
    /\ specifications = <<>>
    /\ default_repository = <<>>
    /\ li = 1
    /\ repositories = NoRepositories
    /\ objs = <<>>
    /\ requests = <<>>
    /\ record_size = FALSE
    /\ ri = 1
    /\ children = <<>>
    /\ ci = 1
    /\ results = <<>>
    /\ repos = <<>>
    /\ rk = 1
    /\ source = <<>>
    /\ queries = <<>>
    /\ reported = {}
    /\ history = <<>>
    /\ loads = <<>>
    /\ printed = FALSE
    /\ hierarchy \in Dicts(1)
    /\ rendered = <<>>

\* main.py 263-264: tree(hierarchy), the key suffix left at its default
Render ==
    /\ pc = "render"
    /\ rendered' = <<tree(hierarchy, "")>>
    /\ pc' = "done"
    /\ UNCHANGED <<parseVars, exc, settingsVars, objs, cmdVars, runVars, envVars,
                   hierarchy>>

NextTree == Render

SpecTree == InitTree /\ [][NextTree]_vars

(***************************************************************************)
(* Properties of the parser                                                *)
(***************************************************************************)
Range(f) == {f[i] : i \in DOMAIN f}

\* the three segments of text as the specification words them: user after
\* the first "~", host after the first "@" of what precedes it
FirstAt(t, c) ==
    LET S == {i \in 1..Len(t) : t[i] = c}
    IN  IF S = {} THEN Len(t) + 1 ELSE CHOOSE i \in S : \A j \in S : i <= j
UserSeg(t)   == SubSeq(t, FirstAt(t, "~") + 1, Len(t))
PrefixSeg(t) == SubSeq(t, 1, FirstAt(t, "~") - 1)
HostSeg(t)   == SubSeq(PrefixSeg(t), FirstAt(PrefixSeg(t), "@") + 1,
                       Len(PrefixSeg(t)))
ConfigSeg(t) == SubSeq(PrefixSeg(t), 1, FirstAt(PrefixSeg(t), "@") - 1)
Segments(t)  == {ConfigSeg(t), HostSeg(t), UserSeg(t)}

\* letters, digits, underscore and dash
Legal == IdStart \cup IdDigit \cup {"-"}
HasIllegal(seg) == \E i \in 1..Len(seg) : seg[i] \notin Legal
BadStart(seg) == seg # <<>> /\ seg[1] \in IdDigit \cup {"-"}

\* text gives all three segments
AllGiven(t) == ConfigSeg(t) # <<>> /\ HostSeg(t) # <<>> /\ UserSeg(t) # <<>>

\* C8 as claimed: for every valid spec string, parsing it and serialising
\* the parsed spec yields the original string, whichever segments it omits.
C8_RoundTripAlways == serial # <<>> => serial[1] = text

\* C8 amended: serialising the parsed spec yields the full form
\* config@host~user with the local hostname and username in place of an
\* omitted host and user; it is the original string exactly when the string
\* gives all three segments, and the full form parses to the same
\* repository and serialises to itself.
C8_RoundTripFull ==
    serial # <<>> =>
        LET again == Repository(serial[1], <<>>)
        IN  /\ (serial[1] = text) <=> AllGiven(text)
            /\ serial[1] = ConfigSeg(text) \o <<"@">>
                              \o OrDefault(HostSeg(text), hostname) \o <<"~">>
                              \o OrDefault(UserSeg(text), username)
            /\ again.exc = "none"
            /\ again.obj.config = parsed[1].obj.config
            /\ again.obj.host = parsed[1].obj.host
            /\ again.obj.user = parsed[1].obj.user
            /\ Str(again.obj) = serial[1]

\* a spec without host and user has been parsed and serialised
C8_Witness ==
    /\ serial # <<>>
    /\ HostSeg(text) = <<>>
    /\ UserSeg(text) = <<>>
    /\ serial[1] # text

\* C9 as claimed: parsing fails if and only if some non-empty segment holds
\* a character outside letters, digits, underscore and dash; an empty
\* segment is an absent field and no error.
C9_FailsIffIllegalChar ==
    parsed # <<>> =>
        (parsed[1].exc # "none" <=> \E seg \in Segments(text) : HasIllegal(seg))

\* C9 amended: text is split at the first "~" and what precedes it at the
\* first "@", a further "@" or "~" staying in the adjoining segment; parsing
\* fails if and only if the config segment is empty or some segment holds a
\* character outside letters, digits, underscore and dash or begins with a
\* digit or a dash; otherwise config is the config segment and an empty host
\* or user segment yields the local hostname or username.
C9_ParseRule ==
    parsed # <<>> =>
        /\ parsed[1].exc # "none" <=>
               \/ ConfigSeg(text) = <<>>
               \/ \E seg \in Segments(text) : HasIllegal(seg) \/ BadStart(seg)
        /\ parsed[1].exc = "Error" <=> ConfigSeg(text) = <<>>
        /\ parsed[1].exc = "none" =>
               /\ parsed[1].obj.config = ConfigSeg(text)
               /\ parsed[1].obj.host = OrDefault(HostSeg(text), hostname)
               /\ parsed[1].obj.user = OrDefault(UserSeg(text), username)

\* a string of legal characters whose host begins with a digit was rejected
C9_Witness ==
    /\ parsed # <<>>
    /\ parsed[1].exc = "Invalid"
    /\ ~(\E seg \in Segments(text) : HasIllegal(seg))
    /\ BadStart(HostSeg(text))

(***************************************************************************)
(* Properties of the catalog                                               *)
(***************************************************************************)
Declared == {specifications[i].name : i \in DOMAIN specifications}
GroupIndex(g) == CHOOSE i \in DOMAIN specifications : specifications[i].name = g
\* the groups that group g lists
Refs(g) == Range(specifications[GroupIndex(g)].specs) \cap Declared

RECURSIVE ReachIn(_, _)
ReachIn(S, n) ==
    IF n = 0 THEN S ELSE ReachIn(S \cup UNION {Refs(g) : g \in S}, n - 1)
\* the groups g refers to, directly or through other groups
ReachFrom(g) == ReachIn(Refs(g), Len(specifications))
CyclicGroups == {g \in Declared : g \in ReachFrom(g)}

\* the specs of the repositories of a list of object ids
LeafSpecs(list) == [k \in 1..Len(list) |-> objs[list[k]].spec]

\* C1 as claimed: once the settings are read, a catalog with a group that
\* refers to itself, directly or through other groups, has failed with
\* CyclicGroup and the group has no expansion.
C1_CyclicGroupFails ==
    pc # "load" =>
        \A g \in CyclicGroups : g \notin DOMAIN repositories /\ exc = "CyclicGroup"

\* what C1 amended says of the state a step of the settings loop leaves
C1_CycleInv ==
    /\ exc # "CyclicGroup"
    /\ li <= Len(specifications) + 1
    /\ \A i \in 1..(li - 1) :
          LET g == specifications[i].name
          IN  g \in CyclicGroups =>
                /\ g \in DOMAIN repositories
                /\ Range(repositories[g]) \subseteq DOMAIN objs
                /\ \E id \in Range(repositories[g]) :
                      /\ objs[id].spec \in CyclicGroups
                      /\ objs[id].config = objs[id].spec

\* C1 amended: resolving a group that refers to itself, directly or through
\* other groups, raises no CyclicGroup error and always terminates: the
\* settings loop ends after one step per group, and the group's expansion is
\* a list no longer than the settings in which the reference that closes the cycle is kept as a
\* concrete repository whose config is the name of the group referred to.
C1_CycleTerminates ==
    [][/\ li' = li + 1 \/ pc' = "crashed"
       /\ pc' = "load" => li' <= Len(specifications)
       /\ pc' \in {"load", "loaded", "crashed"}
       /\ C1_CycleInv']_vars

\* two groups that list each other have both been expanded
C1_Witness ==
    /\ pc = "loaded"
    /\ \E g \in CyclicGroups : g \notin Refs(g) /\ g \in DOMAIN repositories

RECURSIVE FlatAll(_, _), GroupAll(_, _)
\* the expansion C7 claims: every entry that names a declared group replaced
\* by that group's expansion, to n levels of nesting
FlatAll(specs, n) ==
    IF specs = <<>> THEN <<>>
    ELSE LET e == Head(specs)
         IN  (IF e \in Declared /\ n > 0 THEN GroupAll(e, n - 1) ELSE <<e>>)
                 \o FlatAll(Tail(specs), n)
GroupAll(g, n) ==
    LET specs == specifications[GroupIndex(g)].specs
    IN  IF specs = <<>> THEN <<g>> ELSE FlatAll(specs, n)

RECURSIVE FlatEarlier(_, _), GroupEarlier(_)
\* the expansion of the i-th group in which only the entries naming a group
\* declared before it are replaced
FlatEarlier(specs, i) ==
    IF specs = <<>> THEN <<>>
    ELSE LET e == Head(specs)
         IN  (IF \E j \in 1..(i - 1) : specifications[j].name = e
              THEN GroupEarlier(GroupIndex(e)) ELSE <<e>>)
                 \o FlatEarlier(Tail(specs), i)
GroupEarlier(i) ==
    LET g == specifications[i]
    IN  IF g.specs = <<>> THEN <<g.name>> ELSE FlatEarlier(g.specs, i)

\* C7 as claimed: in a catalog without cycles every entry that names a
\* catalog group, wherever that group is declared, is replaced in place by
\* the group's expansion, and the leaves are in depth-first declaration order.
C7_ExpandsEveryGroup ==
    (pc = "loaded" /\ CyclicGroups = {}) =>
        \A g \in Declared :
            LeafSpecs(repositories[g]) = GroupAll(g, Len(specifications))

\* C7 amended: for every group of the catalog, each list entry that names a
\* group declared earlier in the catalog, at any depth of nesting, is
\* replaced in place by that group's expansion; an entry that names the
\* group itself, a group declared later or no group is emitted as a leaf;
\* the leaves are in depth-first declaration order.
C7_ExpandsEarlierGroups ==
    \A i \in 1..Len(specifications) :
        i < li =>
            /\ specifications[i].name \in DOMAIN repositories
            /\ LeafSpecs(repositories[specifications[i].name]) = GroupEarlier(i)

\* a group lists a group that lists a group, all expanded, two levels deep
C7_Witness ==
    /\ pc = "loaded"
    /\ Len(specifications) = 3
    /\ specifications[3].specs = <<GroupName(2), <<"x">>>>
    /\ specifications[2].specs = <<GroupName(1)>>
    /\ specifications[1].specs = <<<<"x", "@", "h">>>>
    /\ LeafSpecs(repositories[GroupName(3)]) = << <<"x", "@", "h">>, <<"x">> >>

(***************************************************************************)
(* Properties of a run                                                     *)
(***************************************************************************)
Ended == pc \in {"done", "crashed"}

\* the spec the i-th request stands for
EffSpec(i) == IF requests[i] = <<>> THEN default_repository ELSE requests[i]

\* the i-th request is neither a catalog group nor a well-formed spec
Malformed(i) ==
    /\ EffSpec(i) # <<>>
    /\ EffSpec(i) \notin DOMAIN repositories
    /\ \/ ConfigSeg(EffSpec(i)) = <<>>
       \/ \E seg \in Segments(EffSpec(i)) : HasIllegal(seg) \/ BadStart(seg)

\* the paths of the repositories the i-th request stands for
RequestPaths(i) ==
    IF EffSpec(i) \in DOMAIN repositories
    THEN {get_path(objs[id]) : id \in Range(repositories[EffSpec(i)])}
    ELSE {<<OrDefault(HostSeg(EffSpec(i)), hostname),
            OrDefault(UserSeg(EffSpec(i)), username), ConfigSeg(EffSpec(i))>>}

\* the paths of the repositories in a dictionary
DictPaths(d) == {get_path(objs[d[i].val]) : i \in DOMAIN d}

FetchFailures == {"missing", "unreachable", "unreadable", "denied"}

\* C2 as claimed: in a run whose fetches raise nothing else, a request that
\* is neither a catalog group nor a well-formed spec does not keep the other
\* requests from being resolved and fetched, and their repositories are in
\* the merged result.
C2_SiblingsSurvive ==
    (Ended /\ exc # "ValueError" /\ \A i \in DOMAIN requests : EffSpec(i) # <<>>) =>
        \A i, j \in DOMAIN requests :
            (Malformed(i) /\ ~Malformed(j)) =>
                /\ j < ri
                /\ \A path \in RequestPaths(j) :
                      (path \in DOMAIN source /\ source[path].kind = "doc")
                          => path \in DictPaths(repos)

\* what C3 says of the state a step leaves: while no other failure has ended
\* the run, every failed read is reported under the repository's identity
\* and every repository that was read is in the result
C3_Inv ==
    (exc = "none" /\ pc \in {"collect", "fetch", "record", "report", "done"}) =>
        \A k \in DOMAIN queries :
            LET out  == source[queries[k].path]
                name == Str(objs[queries[k].id])
            IN  /\ out.kind \in FetchFailures =>
                      \E r \in reported :
                          r.culprit = name /\ r.kind \in {"Error", "OSError"}
                /\ out.kind = "doc" =>
                      name \in DictKeys(results) \cup DictKeys(repos)

\* the step is a read of the metrics source by get_repos that fails
C3_FailedFetch ==
    /\ pc = "fetch"
    /\ Len(queries') = Len(queries) + 1
    /\ source'[queries'[Len(queries')].path].kind \in FetchFailures

\* C3: a metrics fetch that fails because the source is missing, unreachable
\* or unreadable is reported under the repository's identity and the loop
\* goes on with the next child, the results so far kept: the repositories
\* that can be read, of the same group and of the other requests, are
\* fetched and in the result.
C3_FetchFailureIsolated ==
    [][/\ C3_Inv'
       /\ C3_FailedFetch =>
             /\ pc' = "fetch"
             /\ exc' = "none"
             /\ ci' = ci + 1
             /\ children' = children
             /\ results' = results
             /\ repos' = repos
             /\ ri' = ri]_vars

\* of one group the first repository could not be read, the second is in
\* the result
C3_Witness ==
    /\ pc = "done"
    /\ exc = "none"
    /\ Len(requests) = 1
    /\ Len(queries) = 2
    /\ source[queries[1].path].kind = "denied"
    /\ source[queries[2].path].kind = "doc"
    /\ DictPaths(repos) = {queries[2].path}
    /\ \E r \in reported : r.culprit = Str(objs[queries[1].id])

\* C4: no two entries of the result of get_repos or of the merged result of
\* collect_repos have the same resolved config, host and user, each entry
\* is kept under the identity of its repository, and once all requests are
\* resolved every repository that was read is in the merged result exactly
\* once.
C4_IdentityOnce ==
    /\ \A d \in {results, repos} :
          /\ \A i, j \in DOMAIN d :
                i # j => get_path(objs[d[i].val]) # get_path(objs[d[j].val])
          /\ \A i \in DOMAIN d : d[i].key = Str(objs[d[i].val])
    /\ (exc = "none" /\ pc \in {"record", "report", "done"}) =>
          \A k \in DOMAIN queries :
              source[queries[k].path].kind = "doc" =>
                  Cardinality({i \in DOMAIN repos :
                      get_path(objs[repos[i].val]) = queries[k].path}) = 1

\* a group that lists x and the request x@h~u, which spells out the local
\* defaults, have become one entry
C4_Witness ==
    /\ pc = "done"
    /\ exc = "none"
    /\ requests = << <<"a">>, <<"x", "@", "h", "~", "u">> >>
    /\ <<"a">> \in DOMAIN repositories
    /\ LeafSpecs(repositories[<<"a">>]) = << <<"x">> >>
    /\ Len(repos) = 1
    /\ Len(queries) = 2

\* C5 as claimed: when a run is given the same spec twice, a spec that is
\* no catalog group, the metrics source of its repository is read once only
\* if the first read gave a record.
C5_SameSpecReadOnce ==
    \A i, j \in DOMAIN requests :
        (i # j /\ requests[i] = requests[j] /\ ~Malformed(i)
              /\ EffSpec(i) # <<>> /\ EffSpec(i) \notin DOMAIN repositories) =>
            \A path \in RequestPaths(i) \cap DOMAIN source :
                (source[path].kind = "doc" /\ source[path].raw # EmptyDoc) =>
                    Cardinality({k \in DOMAIN queries : queries[k].path = path}) <= 1

\* C6 as claimed: no Repository object reads a metrics source that gives a
\* document more than once, whatever the document holds.
C6_PopulatedOnce ==
    \A id \in DOMAIN objs :
        Cardinality({k \in DOMAIN queries :
            queries[k].id = id /\ source[queries[k].path].kind = "doc"}) <= 1

\* C10: get_repos resolves an empty request as it resolves the default
\* repository when that is requested by name: to the objects of the group
\* of that name, else to one new Repository of that spec; with no default
\* configured, the run ends with the Error 'there is no default repository',
\* with no repositories and no report.
C10_DefaultSubstituted ==
    \A i \in DOMAIN requests :
        (i = ri /\ pc # "collect") =>
            /\ pc = "fetch" =>
                  /\ EffSpec(i) # <<>>
                  /\ IF EffSpec(i) \in DOMAIN repositories
                     THEN children = repositories[EffSpec(i)]
                     ELSE /\ children = <<Len(objs)>>
                          /\ objs[Len(objs)].spec = EffSpec(i)
                          /\ objs[Len(objs)].name = EffSpec(i)
            /\ (requests[i] = <<>> /\ default_repository = <<>>) =>
                  /\ pc = "done"
                  /\ exc = "Error"
                  /\ [culprit |-> <<>>, kind |-> "Error"] \in reported
                  /\ repos = <<>>
                  /\ queries = <<>> \/ i > 1
                  /\ ~printed
            /\ (requests[i] = <<>> /\ default_repository # <<>> /\ ~Malformed(i)) =>
                  exc # "Error"

\* an empty request was resolved to the group the default names
C10_Witness ==
    /\ pc = "fetch"
    /\ requests[ri] = <<>>
    /\ default_repository \in DOMAIN repositories
    /\ children = repositories[default_repository]

(***************************************************************************)
(* Properties of the tree renderer                                         *)
(***************************************************************************)
EmptyMapping == [kind |-> "dict", items |-> <<>>]

\* {"h1": {"u1": {"c1": "10 B"}}}
Scalar10B == [kind |-> "str", str |-> "10 B"]
ExampleMapping ==
    [kind |-> "dict", items |-> <<[key |-> "h1", val |->
        [kind |-> "dict", items |-> <<[key |-> "u1", val |->
            [kind |-> "dict", items |-> <<[key |-> "c1", val |-> Scalar10B]>>]]>>]]>>]

\* C11 as stated: rendering the empty mapping gives the empty text, and
\* rendering {"h1": {"u1": {"c1": "10 B"}}} gives exactly the line `h1:`
\* followed by the one child line made of the corner and `c1: 10 B`.
C11_RenderExample ==
    rendered # <<>> =>
        /\ hierarchy = EmptyMapping => rendered[1] = ""
        /\ hierarchy = ExampleMapping =>
               rendered[1] \in {"h1:\nLc1: 10 B", "h1:\nL-- c1: 10 B",
                                "h1:\n    Lc1: 10 B", "h1:\n    L-- c1: 10 B"}

\* C11 amended: rendering the empty mapping gives the empty text, and
\* rendering {"h1": {"u1": {"c1": "10 B"}}} gives exactly three lines: `h1`
\* with no connector and no colon, the user `u1` behind the corner connector,
\* and `c1: 10 B` behind a blank lead and the corner connector; no line ends
\* in a connector.
C11_RenderExampleThreeLines ==
    rendered # <<>> =>
        /\ hierarchy = EmptyMapping => rendered[1] = ""
        /\ hierarchy = ExampleMapping =>
               rendered[1] = "h1\nL-- u1\n    L-- c1: 10 B"

C11_Witness == hierarchy = ExampleMapping /\ rendered # <<>> /\ pc = "done"

\* the connectors and leads the claims speak of
Branch == "+-- "
Corner == "L-- "
Continuation == "|   "
Blank == "    "

\* the lead of a line below the ancestors of which `lasts` tells, from the
\* level below the top down, whether each is the last child of its mapping
LeadOf(lasts) ==
    LET lead[n \in 0..Len(lasts)] ==
            IF n = 0 THEN ""
            ELSE lead[n - 1] \o (IF lasts[n] THEN Blank ELSE Continuation)
    IN  lead[Len(lasts)]

RECURSIVE LinesOf(_, _, _)
\* the lines of the children of `node`, in order, each followed by the lines
\* of its subtree
LinesOf(node, top, lasts) ==
    LET n == Len(node.items)
        label(i) ==
            IF node.kind = "list" THEN node.items[i]
            ELSE IF node.items[i].val.kind = "str"
            THEN node.items[i].key \o ": " \o node.items[i].val.str
            ELSE node.items[i].key
        mark(i) == IF top THEN "" ELSE IF i = n THEN Corner ELSE Branch
        below(i) ==
            IF node.kind = "dict" /\ node.items[i].val.kind # "str"
            THEN LinesOf(node.items[i].val, FALSE,
                         IF top THEN <<>> ELSE Append(lasts, i = n))
            ELSE <<>>
        upto[i \in 0..n] ==
            IF i = 0 THEN <<>>
            ELSE upto[i - 1] \o <<LeadOf(lasts) \o mark(i) \o label(i)>> \o below(i)
    IN  upto[n]

\* C12: in every rendered tree the top-level keys carry no connector and no
\* indentation; below the top every child of a mapping but the last carries
\* the branch connector and the lines of its subtree the continuation lead in
\* that column, the last child (an only child too) carries the corner
\* connector and the lines of its subtree a blank lead.
C12_Connectors ==
    rendered # <<>> =>
        rendered[1] = Join("\n", LinesOf(hierarchy, TRUE, <<>>))

\* two siblings below the top of which the first has a subtree, and an only
\* child below the top
C12_Witness ==
    /\ rendered # <<>>
    /\ Len(hierarchy.items) = 2
    /\ LET h1 == hierarchy.items[1].val
           h2 == hierarchy.items[2].val
       IN  /\ h1.kind = "dict" /\ Len(h1.items) = 2
           /\ h1.items[1].val.kind = "dict" /\ Len(h1.items[1].val.items) = 2
           /\ h2.kind = "dict" /\ Len(h2.items) = 1

(***************************************************************************)
(* Properties of a fetch                                                   *)
(***************************************************************************)
\* the metrics document the repository of the fetch run was given
FetchedDoc == source[get_path(objs[1])].raw

\* C15: after a fetch, last_squeeze is the later of last_prune and
\* last_compact and is set exactly when both are; a metrics key absent from
\* the document leaves its field of latest unset, a key present sets it.
C15_SqueezeIsLater ==
    (pc = "done" /\ exc = "none") =>
        LET raw    == FetchedDoc
            latest == objs[1].latest[1]
            set(f) == f \in DOMAIN latest
        IN  /\ set("size") <=> "repository size" \in DOMAIN raw
            /\ set("last_create") <=> "create last run" \in DOMAIN raw
            /\ set("last_prune") <=> "prune last run" \in DOMAIN raw
            /\ set("last_compact") <=> "compact last run" \in DOMAIN raw
            /\ set("last_squeeze") <=> (set("last_prune") /\ set("last_compact"))
            /\ set("last_create") => latest["last_create"] = raw["create last run"]
            /\ set("last_prune") => latest["last_prune"] = raw["prune last run"]
            /\ set("last_compact") =>
                   latest["last_compact"] = raw["compact last run"]
            /\ set("last_squeeze") =>
                   /\ latest["last_squeeze"] \in
                          {latest["last_prune"], latest["last_compact"]}
                   /\ latest["last_squeeze"] >= latest["last_prune"]
                   /\ latest["last_squeeze"] >= latest["last_compact"]

\* a fetched document in which the compaction is later than the pruning and
\* the time of the last create is absent
C15_Witness ==
    /\ pc = "done"
    /\ exc = "none"
    /\ {"prune last run", "compact last run"} \subseteq DOMAIN FetchedDoc
    /\ FetchedDoc["compact last run"] > FetchedDoc["prune last run"]
    /\ "create last run" \notin DOMAIN FetchedDoc
    /\ "last_squeeze" \in DOMAIN objs[1].latest[1]

(***************************************************************************)
(* Properties of the recording                                             *)
(***************************************************************************)
\* the record of the repository under the i-th key of the merged result
LatestOf(i) == objs[repos[i].val].latest[1]

\* C13 as stated: after the recording of a run, the history of every
\* resolved repository holds every entry it held before, unchanged, and one
\* new entry for this run, and no other history was touched.
C13_RecordAppends ==
    (record_size /\ exc = "none" /\ pc \in {"report", "done"}) =>
        /\ Len(loads) = Len(repos)
        /\ DOMAIN history = DictKeys(repos)
        /\ \A i \in DOMAIN repos :
              LET before == loads[i].data
                  after  == history[repos[i].key].data
              IN  /\ loads[i].name = repos[i].key
                  /\ now \notin DOMAIN before
                  /\ DOMAIN after = DOMAIN before \cup {now}
                  /\ \A t \in DOMAIN before : after[t] = before[t]

\* C13 amended: each step of the recording reads the history of one resolved
\* repository; if the record of the repository has a size, the history then
\* holds every entry it held before, unchanged, and one new entry, this
\* run's time with that size; if it has no size, the history is left as it
\* was and a warning is reported; no other history is touched.
C13_RecordAppendsSize ==
    exc = "none" =>
        /\ Len(loads) = rk - 1
        /\ DOMAIN history = {loads[i].name : i \in DOMAIN loads}
        /\ \A i \in DOMAIN loads :
              LET name   == repos[i].key
                  before == loads[i].data
                  after  == history[name].data
              IN  /\ loads[i].name = name
                  /\ now \notin DOMAIN before
                  /\ \A t \in DOMAIN before :
                        t \in DOMAIN after /\ after[t] = before[t]
                  /\ IF "size" \in DOMAIN LatestOf(i)
                     THEN /\ history[name].exists
                          /\ DOMAIN after = DOMAIN before \cup {now}
                          /\ after[now] = LatestOf(i)["size"]
                     ELSE /\ after = before
                          /\ [culprit |-> name, kind |-> "warning"] \in reported

\* a finished run that recorded a size in a history which held an entry of an
\* earlier run, and found no size for another repository
C13_Witness ==
    /\ pc = "done"
    /\ exc = "none"
    /\ record_size
    /\ Len(repos) = 2
    /\ \E i, j \in DOMAIN repos :
          /\ "size" \in DOMAIN LatestOf(i)
          /\ DOMAIN loads[i].data = {earlier}
          /\ DOMAIN history[repos[i].key].data = {earlier, now}
          /\ "size" \notin DOMAIN LatestOf(j)

\* the identities of the repositories fetched with a size
Recordable ==
    {Str(objs[i]) : i \in {j \in DOMAIN objs :
        objs[j].latest # <<>> /\ "size" \in DOMAIN objs[j].latest[1]}}

\* the histories that have this run's entry
Written == {n \in DOMAIN history : now \in DOMAIN history[n].data}

\* C14 as stated: after an interrupt of a run with recording enabled, either
\* the history of every resolved repository (that has a size to record) has
\* this run's entry, or none has.
C14_InterruptAtomic ==
    (exc = "KeyboardInterrupt" /\ record_size) =>
        (Written = {} \/ Written = Recordable)

(***************************************************************************)
(* Properties of the result of a run                                       *)
(***************************************************************************)
\* the objects the configuration built, and the requests that name no group
CatalogIds == UNION {Range(repositories[g]) : g \in DOMAIN repositories}
AdHoc(i) == EffSpec(i) \notin DOMAIN repositories

\* the objects the i-th request stands for, in the order of get_repos
Encountered(i) ==
    IF AdHoc(i)
    THEN <<Cardinality(CatalogIds) + Cardinality({j \in 1..i : AdHoc(j)})>>
    ELSE repositories[EffSpec(i)]

\* the objects of the first n requests, in order
EncounteredUpTo(n) ==
    LET upto[k \in 0..n] == IF k = 0 THEN <<>> ELSE upto[k - 1] \o Encountered(k)
    IN  upto[n]

\* the places of a list of objects that hold the identity `key`
Occurrences(seq, key) == {j \in DOMAIN seq : Str(objs[seq[j]]) = key}
First(occ) == CHOOSE j \in occ : \A k \in occ : j <= k
Last(occ) == CHOOSE j \in occ : \A k \in occ : j >= k

\* what a report shows of an object besides its identity
Shown(id) == <<objs[id].name, objs[id].spec>>

\* the entries of dictionary d show the objects that `pick` takes from seq
Kept(d, seq, pick(_)) ==
    \A i \in DOMAIN d :
        LET occ == Occurrences(seq, d[i].key)
        IN  occ # {} /\ Shown(d[i].val) = Shown(seq[pick(occ)])

\* C16 as stated: of several entries with one identity, within a group or
\* across the requests, the one kept is the first encountered: its name and
\* spec are the ones shown.
C16_FirstOccurrenceKept ==
    /\ pc = "fetch" => Kept(results, SubSeq(children, 1, ci - 1), First)
    /\ Kept(repos, EncounteredUpTo(ri - 1), First)

\* C16 amended: of several entries with one identity, within a group or
\* across the requests, the one kept is the last encountered: its name and
\* spec are the ones shown, and every later duplicate replaces the earlier.
C16_LastOccurrenceKept ==
    /\ pc = "fetch" => Kept(results, SubSeq(children, 1, ci - 1), Last)
    /\ Kept(repos, EncounteredUpTo(ri - 1), Last)

\* a finished run whose result has an identity met twice, under two specs
C16_Witness ==
    /\ pc = "done"
    /\ exc = "none"
    /\ \E i \in DOMAIN repos :
          LET seq == EncounteredUpTo(ri - 1)
              occ == Occurrences(seq, repos[i].key)
          IN  /\ Cardinality(occ) > 1
              /\ Shown(seq[First(occ)]) # Shown(seq[Last(occ)])

\* the fetch of object id gave a record
FetchedWell(id) ==
    /\ objs[id].latest # <<>>
    /\ get_path(objs[id]) \in DOMAIN source
    /\ source[get_path(objs[id])].kind = "doc"

\* C17: every repository in the result of get_repos and of collect_repos has
\* a record (latest is not None) from a fetch that raised nothing; one whose
\* fetch failed is in no result, is given to no report and gets no history.
C17_ResultsFetched ==
    /\ \A d \in {results, repos} : \A i \in DOMAIN d : FetchedWell(d[i].val)
    /\ \A f \in reported :
          (f.kind \in {"Error", "OSError"} /\ f.culprit # <<>>) =>
              /\ f.culprit \notin DictKeys(results) \cup DictKeys(repos)
              /\ f.culprit \notin DOMAIN history
    /\ \A n \in DOMAIN history :
          \E id \in DOMAIN objs : Str(objs[id]) = n /\ FetchedWell(id)
    /\ printed => (repos # <<>> /\ \A i \in DOMAIN repos : FetchedWell(repos[i].val))

\* a finished recording run with one repository fetched and one that failed
C17_Witness ==
    /\ pc = "done"
    /\ exc = "none"
    /\ record_size
    /\ printed
    /\ Len(repos) = 1
    /\ DOMAIN history = DictKeys(repos)
    /\ \E f \in reported : f.kind \in {"Error", "OSError"}

\* C18: no history file is read or written before every request has been
\* resolved and fetched, no report is printed before the recording has
\* ended, and a run that ends while a request is resolved leaves every
\* history as it was and prints no report.
C18_RecordAfterResolve ==
    /\ (loads # <<>> \/ history # <<>>) =>
          (requests # <<>> /\ ri > Len(requests))
    /\ printed => (ri > Len(requests) /\ (record_size => rk > Len(repos)))
    /\ (Ended /\ ri <= Len(requests)) =>
          (history = <<>> /\ loads = <<>> /\ ~printed)

\* a recording run whose first request was fetched and whose second raised
C18_Witness ==
    /\ pc = "done"
    /\ exc = "Error"
    /\ record_size
    /\ ri = 2
    /\ Len(requests) = 2
    /\ Len(queries) > 0
    /\ history = <<>>
    /\ ~printed
====
